---------------------------- MODULE Spec2Model ----------------------------
(***************************************************************************)
(* A model of srt-translator (src/src/main.rs): one run of main, from the  *)
(* parsed subtitle entries and the loaded dictionary text to the written   *)
(* dictionary file, the translation calls and the written subtitle file.   *)
(*                                                                         *)
(* Text is kept as text.  A string is a sequence of runs [c, n]: the       *)
(* character c repeated n >= 1 times, adjacent runs holding different      *)
(* characters, so that a 4001-byte subtitle line is one run and            *)
(* String::len() is the sum of the n.                                      *)
(***************************************************************************)
EXTENDS Integers, Sequences, FiniteSets, TLC

(***************************************************************************)
(* Strings                                                                 *)
(***************************************************************************)

Run(c, n) == [c |-> c, n |-> n]

\* String::push_str / the + of two Strings.
Cat(s, t) ==
  IF s = <<>> THEN t
  ELSE IF t = <<>> THEN s
  ELSE IF s[Len(s)].c = t[1].c
       THEN SubSeq(s, 1, Len(s) - 1)
              \o <<Run(t[1].c, s[Len(s)].n + t[1].n)>>
              \o Tail(t)
       ELSE s \o t

RECURSIVE CatRange(_, _, _)
\* The concatenation of the strings ss[lo], ..., ss[hi].
CatRange(ss, lo, hi) ==
  IF lo > hi THEN <<>>
  ELSE IF lo = hi THEN ss[lo]
  ELSE Cat(CatRange(ss, lo, (lo + hi) \div 2),
           CatRange(ss, ((lo + hi) \div 2) + 1, hi))

\* The concatenation of a sequence of strings.
CatAll(ss) == CatRange(ss, 1, Len(ss))

\* The character c, n times.
Rep(c, n) == IF n = 0 THEN <<>> ELSE <<Run(c, n)>>

\* The string holding the characters of the tuple cs, in order.
Str(cs) == CatAll([j \in 1..Len(cs) |-> <<Run(cs[j], 1)>>])

RECURSIVE LenRange(_, _, _)
\* The number of characters of the runs s[lo], ..., s[hi].
LenRange(s, lo, hi) ==
  IF lo > hi THEN 0
  ELSE IF lo = hi THEN s[lo].n
  ELSE LenRange(s, lo, (lo + hi) \div 2)
         + LenRange(s, ((lo + hi) \div 2) + 1, hi)

\* String::len(): the byte length (every character of the model is ASCII).
StrLen(s) == LenRange(s, 1, Len(s))

RECURSIVE FlattenRange(_, _, _)
\* The sequences qs[lo], ..., qs[hi] one after the other.
FlattenRange(qs, lo, hi) ==
  IF lo > hi THEN <<>>
  ELSE IF lo = hi THEN qs[lo]
  ELSE FlattenRange(qs, lo, (lo + hi) \div 2)
         \o FlattenRange(qs, ((lo + hi) \div 2) + 1, hi)

Flatten(qs) == FlattenRange(qs, 1, Len(qs))

\* The indices 1..n that satisfy Keep, in increasing order.
Indices(n, Keep(_)) == SelectSeq([j \in 1..n |-> j], Keep)

\* The characters of the model in the order of their byte values.
Alphabet ==
  << "\n", "\r", " ", "\"", "#", "'", "*", ",", "-", "/",
     "0", "1", "2", "3", "4", "5", "6", "7", "8", "9",
     ":", "<", "=", ">", "?", "@", "A", "B", "F", "\\",
     "a", "b", "c", "f", "i", "k", "l", "n", "o", "r", "t", "u", "x" >>

Ord(c) == CHOOSE k \in 1..Len(Alphabet) : Alphabet[k] = c

LowerChars ==
  {"a", "b", "c", "f", "i", "k", "l", "n", "o", "r", "t", "u", "x"}

UpperChars == {"A", "B", "F"}

\* u8::to_ascii_lowercase on one character.
LowerChar(c) ==
  CASE c = "A" -> "a"
    [] c = "B" -> "b"
    [] c = "F" -> "f"
    [] OTHER -> c

\* str::to_ascii_lowercase.
ToAsciiLowercase(s) ==
  CatAll([j \in 1..Len(s) |-> <<Run(LowerChar(s[j].c), s[j].n)>>])

RECURSIVE StrLess(_, _)
\* str::cmp(s, t) = Less: the byte-wise lexicographic order.
StrLess(s, t) ==
  IF t = <<>> THEN FALSE
  ELSE IF s = <<>> THEN TRUE
  ELSE IF s[1].c # t[1].c THEN Ord(s[1].c) < Ord(t[1].c)
  ELSE IF s[1].n = t[1].n THEN StrLess(Tail(s), Tail(t))
  ELSE IF s[1].n < t[1].n
       THEN StrLess(Tail(s), <<Run(t[1].c, t[1].n - s[1].n)>> \o Tail(t))
       ELSE StrLess(<<Run(s[1].c, s[1].n - t[1].n)>> \o Tail(s), Tail(t))

CRLF == Str(<<"\r", "\n">>)

LF == Str(<<"\n">>)

(***************************************************************************)
(* The regular expressions and string searches of main.rs                  *)
(*                                                                         *)
(* A match of one of these patterns takes the last character of the run    *)
(* it starts in, whole runs of one character, and the first character of   *)
(* the run it ends in; two matches of the same pattern never overlap, so   *)
(* the matches found from the left are all the places where it matches.    *)
(***************************************************************************)

\* A match of "</?[ib]>" that starts with the last "<" of run j of s: the
\* index of the run holding the closing ">", or 0 when there is none.
TagEnd(s, j) ==
  IF s[j].c # "<" THEN 0
  ELSE IF j + 2 <= Len(s) /\ s[j + 1].c \in {"i", "b"} /\ s[j + 1].n = 1
            /\ s[j + 2].c = ">"
       THEN j + 2
  ELSE IF j + 3 <= Len(s) /\ s[j + 1] = Run("/", 1)
            /\ s[j + 2].c \in {"i", "b"} /\ s[j + 2].n = 1
            /\ s[j + 3].c = ">"
       THEN j + 3
  ELSE 0

\* re_clean_tags.replace_all(text, ""): every "<i>", "</i>", "<b>", "</b>"
\* removed, in one pass.
CleanTags(s) ==
  LET Starts(j) == TagEnd(s, j) > 0
      Ends(j) == \E m \in 1..(j - 1) : TagEnd(s, m) = j
      Inside(j) == \E m \in 1..(j - 1) : m < j /\ j < TagEnd(s, m)
      Left(j) == IF Inside(j) THEN <<>>
                 ELSE IF Starts(j) \/ Ends(j) THEN Rep(s[j].c, s[j].n - 1)
                 ELSE <<s[j]>>
  IN CatAll([j \in 1..Len(s) |-> Left(j)])

\* re_newline.replace_all(text, rep): every "\n", with the "\r" right
\* before it when there is one, replaced by the character rep.
ReplaceNewline(s, rep) ==
  LET Piece(j) ==
        IF s[j].c = "\n" THEN Rep(rep, s[j].n)
        ELSE IF s[j].c = "\r" /\ j < Len(s) /\ s[j + 1].c = "\n"
             THEN Rep("\r", s[j].n - 1)
        ELSE <<s[j]>>
  IN CatAll([j \in 1..Len(s) |-> Piece(j)])

\* Whether the literal pat (a tuple of two or more characters, neighbours
\* different, no end of it also a start of it) occurs in s starting with
\* the last character of run j.
LitAt(s, j, pat) ==
  /\ j >= 1
  /\ j + Len(pat) - 1 <= Len(s)
  /\ s[j].c = pat[1]
  /\ \A m \in 2..(Len(pat) - 1) : s[j + m - 1] = Run(pat[m], 1)
  /\ s[j + Len(pat) - 1].c = pat[Len(pat)]

\* str::replace(pat, to): every occurrence of the literal pat replaced by
\* the string to.
ReplaceLit(s, pat, to) ==
  LET Inside(j) == \E m \in 1..(Len(pat) - 2) : LitAt(s, j - m, pat)
      Piece(j) ==
        IF LitAt(s, j, pat) THEN Cat(Rep(s[j].c, s[j].n - 1), to)
        ELSE IF Inside(j) THEN <<>>
        ELSE IF LitAt(s, j - Len(pat) + 1, pat) THEN Rep(s[j].c, s[j].n - 1)
        ELSE <<s[j]>>
  IN CatAll([j \in 1..Len(s) |-> Piece(j)])

\* One trailing "\r" of s removed.
StripCR(s) ==
  IF s # <<>> /\ s[Len(s)].c = "\r"
  THEN Cat(SubSeq(s, 1, Len(s) - 1), Rep("\r", s[Len(s)].n - 1))
  ELSE s

\* str::lines(): the text cut at every "\n" or "\r\n"; a final line ending
\* starts no further line.
Lines(s) ==
  LET IsNewline(j) == s[j].c = "\n"
      nl == Indices(Len(s), IsNewline)
      From(k) == IF k = 1 THEN 1 ELSE nl[k - 1] + 1
      Ended(k) == <<StripCR(SubSeq(s, From(k), nl[k] - 1))>>
                    \o [m \in 1..(s[nl[k]].n - 1) |-> <<>>]
      last == SubSeq(s, From(Len(nl) + 1), Len(s))
  IN Flatten([k \in 1..Len(nl) |-> Ended(k)])
       \o (IF last = <<>> THEN <<>> ELSE <<last>>)

\* [a-zA-Z'] of re_color.
IsWordChar(c) == c \in LowerChars \cup UpperChars \cup {"'"}

\* [a-z'] of the regular expression of parse_sub_words.
IsLowerWordChar(c) == c \in LowerChars \cup {"'"}

\* Whether run j of s starts a maximal stretch of characters of the class
\* In.
StretchStart(s, j, In(_)) ==
  In(s[j].c) /\ (j = 1 \/ ~In(s[j - 1].c))

\* The last run of the maximal stretch of the class In that holds run j.
StretchEnd(s, j, In(_)) ==
  CHOOSE k \in j..Len(s) :
    /\ \A m \in j..k : In(s[m].c)
    /\ k = Len(s) \/ ~In(s[k + 1].c)

\* The matches of re_color ("([a-zA-Z'])+") in s, in order: the maximal
\* stretches of letters and apostrophes.
ColorMatches(s) ==
  LET IsStart(j) == StretchStart(s, j, IsWordChar)
      starts == Indices(Len(s), IsStart)
  IN [k \in 1..Len(starts) |->
        SubSeq(s, starts[k], StretchEnd(s, starts[k], IsWordChar))]

(***************************************************************************)
(* The dictionary                                                          *)
(***************************************************************************)

\* enum WordKind.
WordKind == {"Known", "Unknown", "New"}

\* impl FromStr for WordKind, on the one character that "[\?ku]" matched.
KindFromStr(c) ==
  CASE c = "k" -> "Known"
    [] c = "u" -> "Unknown"
    [] c = "?" -> "New"

\* The index of the first run of "\n" of s after run j, or 0 when there is
\* none.
NextNewline(s, j) ==
  IF \E k \in (j + 1)..Len(s) : s[k].c = "\n"
  THEN CHOOSE k \in (j + 1)..Len(s) :
         s[k].c = "\n" /\ \A m \in (j + 1)..(k - 1) : s[m].c # "\n"
  ELSE 0

\* Whether "(?P<type>[\?ku]):(?P<text>.+?)\r?\n" matches s starting with the
\* last character of run j, run j + 1 starting with the ":": ".+?" needs
\* one character that is no "\n", and a "\n" must follow on.
DbMatchAt(s, j) ==
  /\ j + 1 <= Len(s)
  /\ s[j].c \in {"?", "k", "u"}
  /\ s[j + 1].c = ":"
  /\ NextNewline(s, j + 1) > 0
  /\ s[j + 1].n > 1 \/ NextNewline(s, j + 1) > j + 2

\* The characters between the ":" and the first "\n" after it.
DbLine(s, j) ==
  Cat(Rep(":", s[j + 1].n - 1), SubSeq(s, j + 2, NextNewline(s, j + 1) - 1))

\* The group "text" were ".+" greedy up to the "\n": a "\r" before the "\n"
\* stays in the word.
DbMatchTextGreedy(s, j) == DbLine(s, j)

\* The group "text" of the match: ".+?" is lazy, so a "\r" right before the
\* "\n" is left to "\r?" whenever that leaves the text a character.
DbMatchText(s, j) ==
  IF StrLen(DbLine(s, j)) >= 2 THEN StripCR(DbLine(s, j)) ELSE DbLine(s, j)

RECURSIVE DbCapturesFrom(_, _)
\* re.captures_iter of parse_db_words from run j of s on: j is 1, or the
\* run of the "\n" that ended the match before (no match starts in it).
DbCapturesFrom(s, j) ==
  IF \E k \in j..Len(s) : DbMatchAt(s, k)
  THEN LET k == CHOOSE k \in j..Len(s) :
                  DbMatchAt(s, k) /\ \A m \in j..(k - 1) : ~DbMatchAt(s, m)
       IN <<[text |-> DbMatchText(s, k), kind |-> KindFromStr(s[k].c)]>>
            \o DbCapturesFrom(s, NextNewline(s, k + 1))
  ELSE <<>>

\* re.captures_iter of parse_db_words: the (text, kind) of every match, in
\* the order of the text.
DbCaptures(s) == DbCapturesFrom(s, 1)

\* The HashMap after words.insert of every element of caps in order: a
\* later insert of the same key replaces the earlier value.
InsertAll(caps) ==
  [w \in {caps[j].text : j \in 1..Len(caps)} |->
     LET last == CHOOSE j \in 1..Len(caps) :
                   /\ caps[j].text = w
                   /\ \A m \in (j + 1)..Len(caps) : caps[m].text # w
     IN caps[last].kind]

\* fn parse_db_words: the mapping word -> kind read from the dictionary
\* text.
parse_db_words(text) == InsertAll(DbCaptures(text))

\* re.captures_iter of parse_sub_words, "(?:(?P<word>[a-z']+?)[^a-z']+)":
\* a maximal stretch of [a-z'] is a match only with a character outside
\* [a-z'] after it, so not at the very end of the text.
SubWordCaptures(s) ==
  LET IsStart(j) == /\ StretchStart(s, j, IsLowerWordChar)
                    /\ StretchEnd(s, j, IsLowerWordChar) < Len(s)
      starts == Indices(Len(s), IsStart)
  IN [k \in 1..Len(starts) |->
        SubSeq(s, starts[k], StretchEnd(s, starts[k], IsLowerWordChar))]

\* fn parse_sub_words: the words of the lowercased subtitle file, each of
\* kind New.
parse_sub_words(lowercase_subs_text) ==
  [w \in {SubWordCaptures(lowercase_subs_text)[j] :
            j \in 1..Len(SubWordCaptures(lowercase_subs_text))} |-> "New"]

\* The merge with db_words.insert(k, v) in place of entry(k).or_insert(v):
\* a word of the subtitle file takes the kind New whatever it had.
MergeWordsOverwrite(db, sub_words) ==
  [w \in DOMAIN db \cup DOMAIN sub_words |->
     IF w \in DOMAIN sub_words THEN sub_words[w] ELSE db[w]]

\* main, lines 300..302: db_words.entry(k).or_insert(v) for every word of
\* the subtitle file.
MergeWords(db, sub_words) ==
  [w \in DOMAIN db \cup DOMAIN sub_words |->
     IF w \in DOMAIN db THEN db[w] ELSE sub_words[w]]

RECURSIVE SortByTextDesc(_)
\* The keys ws in the order of right.text.cmp(left.text), greatest first.
SortByTextDesc(ws) ==
  IF ws = {} THEN <<>>
  ELSE LET greatest == CHOOSE w \in ws : \A v \in ws \ {w} : StrLess(v, w)
       IN <<greatest>> \o SortByTextDesc(ws \ {greatest})

RECURSIVE SortByText(_)
\* sorted_words.sort_by(left.text.cmp(right.text)) over the keys ws: the
\* keys are distinct, so the order of the result does not depend on the
\* iteration order of the HashMap.
SortByText(ws) ==
  IF ws = {} THEN <<>>
  ELSE LET least == CHOOSE w \in ws : \A v \in ws \ {w} : StrLess(w, v)
       IN <<least>> \o SortByText(ws \ {least})

\* The first character of a dictionary line of a word of kind k.
KindChar(k) ==
  CASE k = "New" -> "?"
    [] k = "Unknown" -> "u"
    [] k = "Known" -> "k"

\* One fold of main (lines 313..332): acc with a line for every word of
\* sorted whose kind is k, in the order of sorted.
FoldKind(acc, sorted, db, k) ==
  LET OfKind(w) == db[w] = k
      ws == SelectSeq(sorted, OfKind)
  IN Cat(acc, CatAll([j \in 1..Len(ws) |->
                        CatAll(<<Str(<<KindChar(k), ":">>), ws[j], CRLF>>)]))

\* words_db_text of main: the New lines, then the Unknown lines, then the
\* Known lines.
WordsDbText(db) ==
  LET sorted == SortByText(DOMAIN db)
  IN FoldKind(FoldKind(FoldKind(<<>>, sorted, db, "New"),
                       sorted, db, "Unknown"),
              sorted, db, "Known")

(***************************************************************************)
(* Subtitle entries and their rendering                                    *)
(***************************************************************************)

Digits == <<"0", "1", "2", "3", "4", "5", "6", "7", "8", "9">>

RECURSIVE DecStr(_)
\* Display of an unsigned integer.
DecStr(n) ==
  IF n < 10 THEN Str(<<Digits[n + 1]>>)
  ELSE Cat(DecStr(n \div 10), Str(<<Digits[(n % 10) + 1]>>))

Pad2(n) == Str(<<Digits[((n \div 10) % 10) + 1], Digits[(n % 10) + 1]>>)

Pad3(n) == Cat(Str(<<Digits[((n \div 100) % 10) + 1]>>), Pad2(n))

\* NaiveTime::format("%H:%M:%S,%3f") of a time of day given in
\* milliseconds.
FormatTime(t) ==
  CatAll(<<Pad2(t \div 3600000), Str(<<":">>), Pad2((t \div 60000) % 60),
           Str(<<":">>), Pad2((t \div 1000) % 60), Str(<<",">>),
           Pad3(t % 1000)>>)

\* Sub::stringify.
stringify(sub) ==
  CatAll(<<DecStr(sub.index), LF,
           FormatTime(sub.start_time), Str(<<" ", "-", "-", ">", " ">>),
           FormatTime(sub.end_time), LF,
           sub.text, LF, LF>>)

\* subs.iter().fold(String::new(), |acc, sub| acc + &sub.stringify()).
StringifyAll(ss) == CatAll([j \in 1..Len(ss) |-> stringify(ss[j])])

(***************************************************************************)
(* translate_subs: the work on one entry                                   *)
(***************************************************************************)

MAX_CHUNK_SIZE == 4000

FontOpen ==
  Str(<<"<", "f", "o", "n", "t", " ", "c", "o", "l", "o", "r", "=", "\"",
        "#", "F", "F", "F", "F", "8", "0", "\"", ">">>)

FontClose == Str(<<"<", "/", "f", "o", "n", "t", ">">>)

\* The test of the closure of re_color.replace_all (lines 224..225): the
\* lowercased word is a key of the dictionary and its kind is not Known.
TriggersTranslation(captured_word, words) ==
  /\ ToAsciiLowercase(captured_word) \in DOMAIN words
  /\ words[ToAsciiLowercase(captured_word)] # "Known"

\* What the closure returns for one match.
ColorWord(captured_word, words) ==
  IF TriggersTranslation(captured_word, words)
  THEN CatAll(<<FontOpen, captured_word, FontClose>>)
  ELSE captured_word

\* colored_text: re_color.replace_all(sub.text, closure).
ColorReplace(s, words) ==
  LET Piece(j) ==
        IF StretchStart(s, j, IsWordChar)
        THEN ColorWord(SubSeq(s, j, StretchEnd(s, j, IsWordChar)), words)
        ELSE IF IsWordChar(s[j].c) THEN <<>>
        ELSE <<s[j]>>
  IN CatAll([j \in 1..Len(s) |-> Piece(j)])

\* sub.text after lines 218..219: tags removed, line breaks made spaces.
CleanText(text) == ReplaceNewline(CleanTags(text), " ")

\* need_translation after the closure has run on every match.
NeedTranslation(clean, words) ==
  \E j \in 1..Len(ColorMatches(clean)) :
     TriggersTranslation(ColorMatches(clean)[j], words)

\* The text of line 237, appended to the chunk.
ChunkText(clean) == ReplaceNewline(clean, "*")

(***************************************************************************)
(* The translation service, seen from translate_subs                       *)
(***************************************************************************)

\* The translation of one line.
TranslateLine(line) == Cat(Str(<<"@">>), line)

\* The lines ls with "\r\n" between them and none after the last.
JoinLines(ls) ==
  CatAll([j \in 1..Len(ls) |-> IF j = 1 THEN ls[j] ELSE Cat(CRLF, ls[j])])

\* The answers Google{}.translate(chunk, EN, RU) may give: the translation
\* of every line of the chunk ("full"), the same less its last line
\* ("short", drawn for chunks of two lines or more, where the answer is
\* short of a line whatever an empty answer counts for), or Err ("err").
TranslateOutcomes(chunk) ==
  {"full", "err"} \cup (IF Len(Lines(chunk)) >= 2 THEN {"short"} ELSE {})

\* The Ok value of the answer.
TranslateResult(chunk, outcome) ==
  LET ls == Lines(chunk)
      tr == [j \in 1..Len(ls) |-> TranslateLine(ls[j])]
  IN IF outcome = "short" THEN JoinLines(SubSeq(tr, 1, Len(tr) - 1))
     ELSE JoinLines(tr)

(***************************************************************************)
(* Inputs                                                                  *)
(***************************************************************************)

\* The most entries the subtitle file holds.
MaxSubs == 3

\* The texts an entry of the subtitle file may hold.
TextPool ==
  { Str(<<"a">>),
    Str(<<"a", "\n", "A">>),
    Str(<<"a", "<", "i", ">", "b", "<", "/", "i", ">">>),
    Rep("c", 2000),
    Rep("c", 4001) }

\* The dictionary file before the run: missing (read as empty), or one of
\* these texts.
DbPool ==
  { <<>>,
    Str(<<"k", ":", "b", "\n", "k", ":", "a", "\n">>),
    Str(<<"u", ":", "b", "\r", "\n", "x", "\n", "k", ":", "a", "\r", "\n",
          "?", ":", "a", " ", "b", "\r", "\r", "\n",
          "u", ":", "a", "\r", "\n">>) }

\* The entries parse_subs makes of a file whose blocks hold the texts ts.
ParsedSubs(ts) ==
  [j \in 1..Len(ts) |->
     [index |-> j, start_time |-> 1000 * j, end_time |-> 1000 * j + 500,
      text |-> ts[j], need_translation |-> FALSE]]

RECURSIVE SeqsUpTo(_, _)
\* The sequences over S of length at most n.
SeqsUpTo(S, n) ==
  IF n = 0 THEN {<<>>}
  ELSE SeqsUpTo(S, n - 1)
         \cup {<<x>> \o s : x \in S,
                             s \in {t \in SeqsUpTo(S, n - 1) :
                                      Len(t) = n - 1}}

(***************************************************************************)
(* The run of main                                                         *)
(***************************************************************************)

VARIABLES
  pc,                 \* where main stands
  fatal,              \* the step that panicked, "none" while none has
  input_subs,         \* the entries of the input subtitle file
  analyze_mode,       \* args.analyze_mode
  subs,               \* main's subs
  lowercase_subs_text, \* main's lowercase_subs_text
  sub_words,          \* main's sub_words
  db_words,           \* main's db_words
  db_file,            \* the dictionary file on disk
  db_saved,           \* whether main has written the dictionary file
  i,                  \* translate_subs: the entry the first loop is at
  current_chunk,      \* translate_subs: current_chunk
  current_chunk_size, \* translate_subs: current_chunk_size
  translated_chunks,  \* translate_subs: translated_chunks
  calls,              \* the translation calls made so far, with their answers
  events,             \* the calls and sleeps of the run, in order
  out_file            \* the output subtitle file on disk

vars ==
  <<pc, fatal, input_subs, analyze_mode, lowercase_subs_text, sub_words,
    subs, db_words, db_file, db_saved, i, current_chunk, current_chunk_size,
    translated_chunks, calls, events, out_file>>

\* The output file before the run and until main creates it.
NoFile == [exists |-> FALSE, text |-> <<>>]

\* subs_text of main: the text of the input subtitle file.
SubsText == StringifyAll(input_subs)

Init ==
  /\ pc = "start"
  /\ fatal = "none"
  /\ input_subs \in {ParsedSubs(ts) : ts \in SeqsUpTo(TextPool, MaxSubs)}
  /\ analyze_mode = FALSE
  /\ subs = <<>>
  /\ lowercase_subs_text = <<>>
  /\ sub_words = <<>>
  /\ db_words = <<>>
  /\ db_file \in DbPool
  /\ db_saved = FALSE
  /\ i = 1
  /\ current_chunk = <<>>
  /\ current_chunk_size = 0
  /\ translated_chunks = <<>>
  /\ calls = <<>>
  /\ events = <<>>
  /\ out_file = NoFile

\* main, lines 280..302: the arguments, the two files read and parsed, the
\* words of the subtitle file merged into the dictionary.
ReadInputs ==
  /\ pc = "start"
  /\ \E a \in BOOLEAN : analyze_mode' = a
  /\ subs' = input_subs
  /\ lowercase_subs_text' = ToAsciiLowercase(SubsText)
  /\ sub_words' = parse_sub_words(ToAsciiLowercase(SubsText))
  /\ db_words' = MergeWords(parse_db_words(db_file),
                            parse_sub_words(ToAsciiLowercase(SubsText)))
  /\ pc' = "merged"
  /\ UNCHANGED <<fatal, input_subs, db_file, db_saved, i, current_chunk,
                 current_chunk_size, translated_chunks, calls, events,
                 out_file>>

\* main, line 287: load_text_file(input).unwrap() on an unreadable file.
ReadInputsFails ==
  /\ pc = "start"
  /\ pc' = "aborted"
  /\ fatal' = "read_input"
  /\ UNCHANGED <<input_subs, analyze_mode, subs, db_words, db_file, db_saved,
                 i, current_chunk, current_chunk_size, translated_chunks,
                 calls, events, out_file, lowercase_subs_text, sub_words>>

\* main with the dictionary written after translate_subs instead of before
\* it: the run enters translate_subs with the file as it was loaded.
WriteDatabaseLate ==
  /\ pc = "merged"
  /\ pc' = IF analyze_mode THEN "done" ELSE "batch"
  /\ db_saved' = analyze_mode
  /\ db_file' = IF analyze_mode THEN WordsDbText(db_words) ELSE db_file
  /\ UNCHANGED <<fatal, input_subs, analyze_mode, subs, db_words, i,
                 current_chunk, current_chunk_size, translated_chunks, calls,
                 events, out_file, lowercase_subs_text, sub_words>>

\* main without the test of args.analyze_mode at line 339: the run enters
\* translate_subs in analysis mode too.
WriteDatabaseThenTranslate ==
  /\ pc = "merged"
  /\ db_file' = WordsDbText(db_words)
  /\ db_saved' = TRUE
  /\ pc' = "batch"
  /\ UNCHANGED <<fatal, input_subs, analyze_mode, subs, db_words, i,
                 current_chunk, current_chunk_size, translated_chunks, calls,
                 events, out_file, lowercase_subs_text, sub_words>>

\* main, lines 310..339: the dictionary text built and written; then the
\* run is over in analysis mode and enters translate_subs otherwise.
WriteDatabase ==
  /\ pc = "merged"
  /\ db_file' = WordsDbText(db_words)
  /\ db_saved' = TRUE
  /\ pc' = IF analyze_mode THEN "done" ELSE "batch"
  /\ UNCHANGED <<fatal, input_subs, analyze_mode, subs, db_words, i,
                 current_chunk, current_chunk_size, translated_chunks, calls,
                 events, out_file, lowercase_subs_text, sub_words>>

\* main, lines 334..337: File::create or write fails and expect panics; a
\* created file is cut to nothing before the write.
WriteDatabaseFails ==
  /\ pc = "merged"
  /\ \E created \in BOOLEAN :
       db_file' = IF created THEN <<>> ELSE db_file
  /\ pc' = "aborted"
  /\ fatal' = "write_database"
  /\ UNCHANGED <<db_saved, input_subs, analyze_mode, subs, db_words, i,
                 current_chunk, current_chunk_size, translated_chunks, calls,
                 events, out_file, lowercase_subs_text, sub_words>>

\* A flush of the first loop that is answered with no pause after it.
FlushEventsNoSleep == <<"translate">>

\* What a flush of the first loop that is answered adds to the events of
\* the run: the call of line 244, then the sleep of line 245.
FlushEvents == <<"translate", "sleep">>

\* One call Google{}.translate(chunk, EN, RU) as the run records it.
Call(chunk, trailing, outcome) ==
  [text |-> chunk, trailing |-> trailing, outcome |-> outcome,
   ok |-> outcome # "err",
   result |-> IF outcome = "err" THEN <<>>
              ELSE TranslateResult(chunk, outcome)]

\* translated_chunks after the two push_str that follow a call.
PushTranslated(chunks, chunk, outcome) ==
  CatAll(<<chunks, TranslateResult(chunk, outcome), CRLF>>)

\* The entry after lines 216..255 of the first loop.
BatchedSub(sub, words) ==
  IF NeedTranslation(CleanText(sub.text), words)
  THEN [sub EXCEPT !.need_translation = TRUE,
                   !.text = ColorReplace(CleanText(sub.text), words)]
  ELSE [sub EXCEPT !.text = CleanText(sub.text)]

\* Whether line 241 finds the chunk over the ceiling with size bytes
\* counted so far and the text of len bytes to come.
ChunkOverflows(size, len) == size + len > MAX_CHUNK_SIZE

\* translate_subs, lines 215..256: one turn of the first loop, on entry i,
\* with no call to the translation service.
BatchEntry ==
  /\ pc = "batch"
  /\ i <= Len(subs)
  /\ LET clean == CleanText(subs[i].text)
         text == ChunkText(clean)
     IN /\ ~(NeedTranslation(clean, db_words)
               /\ ChunkOverflows(current_chunk_size, StrLen(text)))
        /\ subs' = [subs EXCEPT ![i] = BatchedSub(subs[i], db_words)]
        /\ IF NeedTranslation(clean, db_words)
           THEN /\ current_chunk_size' = current_chunk_size + StrLen(text)
                /\ current_chunk' = CatAll(<<current_chunk, text, CRLF>>)
           ELSE UNCHANGED <<current_chunk, current_chunk_size>>
  /\ i' = i + 1
  /\ UNCHANGED <<pc, fatal, input_subs, analyze_mode, db_words, db_file,
                 db_saved, translated_chunks, calls, events, out_file,
                 lowercase_subs_text, sub_words>>

\* The turn of the first loop that sends a chunk, with an Err answer taken
\* as a reason to send the chunk again instead of a panic.
BatchEntryFlushRetry ==
  /\ pc = "batch"
  /\ i <= Len(subs)
  /\ LET clean == CleanText(subs[i].text)
         text == ChunkText(clean)
     IN /\ NeedTranslation(clean, db_words)
        /\ ChunkOverflows(current_chunk_size, StrLen(text))
        /\ \E outcome \in TranslateOutcomes(current_chunk) :
             /\ calls' = Append(calls, Call(current_chunk, FALSE, outcome))
             /\ IF outcome = "err"
                THEN /\ Len(calls) < MaxSubs
                     /\ events' = Append(events, "translate")
                     /\ UNCHANGED <<i, subs, current_chunk,
                                    current_chunk_size, translated_chunks>>
                ELSE /\ events' = events \o <<"translate", "sleep">>
                     /\ subs' = [subs EXCEPT
                                   ![i] = BatchedSub(subs[i], db_words)]
                     /\ current_chunk_size' = StrLen(text)
                     /\ translated_chunks' =
                          PushTranslated(translated_chunks, current_chunk,
                                         outcome)
                     /\ current_chunk' = Cat(text, CRLF)
                     /\ i' = i + 1
  /\ UNCHANGED <<pc, fatal, input_subs, analyze_mode, db_words, db_file,
                 db_saved, out_file, lowercase_subs_text, sub_words>>

\* The turn of the first loop that sends a chunk, with lines 252 and 253
\* inside an else: the entry that caused the flush is put in no chunk.
BatchEntryFlushDropsEntry ==
  /\ pc = "batch"
  /\ i <= Len(subs)
  /\ LET clean == CleanText(subs[i].text)
         text == ChunkText(clean)
     IN /\ NeedTranslation(clean, db_words)
        /\ ChunkOverflows(current_chunk_size, StrLen(text))
        /\ \E outcome \in TranslateOutcomes(current_chunk) :
             /\ calls' = Append(calls, Call(current_chunk, FALSE, outcome))
             /\ IF outcome = "err"
                THEN /\ pc' = "aborted"
                     /\ fatal' = "translate"
                     /\ events' = Append(events, "translate")
                     /\ subs' = [subs EXCEPT ![i].need_translation = TRUE,
                                             ![i].text = clean]
                     /\ current_chunk_size' = StrLen(text)
                     /\ UNCHANGED <<i, current_chunk, translated_chunks>>
                ELSE /\ UNCHANGED <<pc, fatal>>
                     /\ events' = events \o <<"translate", "sleep">>
                     /\ subs' = [subs EXCEPT
                                   ![i] = BatchedSub(subs[i], db_words)]
                     /\ current_chunk_size' = StrLen(text)
                     /\ translated_chunks' =
                          PushTranslated(translated_chunks, current_chunk,
                                         outcome)
                     /\ current_chunk' = <<>>
                     /\ i' = i + 1
  /\ UNCHANGED <<input_subs, analyze_mode, db_words, db_file, db_saved,
                 out_file, lowercase_subs_text, sub_words>>

\* translate_subs, lines 215..256: one turn of the first loop on an entry
\* that needs translation and takes the chunk over the ceiling: the chunk
\* gathered so far is sent (line 244), the run sleeps, and the entry starts
\* the next chunk.  An Err answer makes unwrap panic.
BatchEntryFlush ==
  /\ pc = "batch"
  /\ i <= Len(subs)
  /\ LET clean == CleanText(subs[i].text)
         text == ChunkText(clean)
     IN /\ NeedTranslation(clean, db_words)
        /\ ChunkOverflows(current_chunk_size, StrLen(text))
        /\ \E outcome \in TranslateOutcomes(current_chunk) :
             /\ calls' = Append(calls, Call(current_chunk, FALSE, outcome))
             /\ IF outcome = "err"
                THEN /\ pc' = "aborted"
                     /\ fatal' = "translate"
                     /\ events' = Append(events, "translate")
                     /\ subs' = [subs EXCEPT ![i].need_translation = TRUE,
                                             ![i].text = clean]
                     /\ current_chunk_size' = StrLen(text)
                     /\ UNCHANGED <<i, current_chunk, translated_chunks>>
                ELSE /\ UNCHANGED <<pc, fatal>>
                     /\ events' = events \o FlushEvents
                     /\ subs' = [subs EXCEPT
                                   ![i] = BatchedSub(subs[i], db_words)]
                     /\ current_chunk_size' = StrLen(text)
                     /\ translated_chunks' =
                          PushTranslated(translated_chunks, current_chunk,
                                         outcome)
                     /\ current_chunk' = Cat(text, CRLF)
                     /\ i' = i + 1
  /\ UNCHANGED <<input_subs, analyze_mode, db_words, db_file, db_saved,
                 out_file, lowercase_subs_text, sub_words>>

\* translate_subs, lines 258..264: after the first loop, the chunk that is
\* left is sent when it is not empty.
TrailingFlush ==
  /\ pc = "batch"
  /\ i > Len(subs)
  /\ IF current_chunk = <<>>
     THEN /\ pc' = "reassemble"
          /\ UNCHANGED <<fatal, translated_chunks, calls, events>>
     ELSE \E outcome \in TranslateOutcomes(current_chunk) :
            /\ calls' = Append(calls, Call(current_chunk, TRUE, outcome))
            /\ events' = Append(events, "translate")
            /\ IF outcome = "err"
               THEN /\ pc' = "aborted"
                    /\ fatal' = "translate"
                    /\ UNCHANGED translated_chunks
               ELSE /\ pc' = "reassemble"
                    /\ UNCHANGED fatal
                    /\ translated_chunks' =
                         PushTranslated(translated_chunks, current_chunk,
                                        outcome)
  /\ UNCHANGED <<input_subs, analyze_mode, subs, db_words, db_file, db_saved,
                 i, current_chunk, current_chunk_size, out_file,
                 lowercase_subs_text, sub_words>>

\* translated_lines of line 267, as a sequence.
TranslatedLines(chunks) ==
  Lines(ReplaceLit(chunks, <<"\\", "r", "\\", "n">>, CRLF))

\* The number of entries among ss[1..j] that need translation.
FlaggedUpTo(ss, j) == Cardinality({m \in 1..j : ss[m].need_translation})

\* The entry ss[j] after lines 270..274, its translated line being the next
\* one of lines.
ReassembledSub(ss, j, lines) ==
  IF ss[j].need_translation
  THEN [ss[j] EXCEPT
          !.text = CatAll(<<ss[j].text, CRLF,
                            ReplaceLit(lines[FlaggedUpTo(ss, j)],
                                       <<" ", "*">>, CRLF)>>)]
  ELSE ss[j]

\* The second loop over a Vec that retain() has cut to the entries that
\* need translation.
ReassembleFlaggedOnly ==
  /\ pc = "reassemble"
  /\ LET lines == TranslatedLines(translated_chunks)
         IsFlagged(sub) == sub.need_translation
     IN IF FlaggedUpTo(subs, Len(subs)) > Len(lines)
        THEN /\ pc' = "aborted"
             /\ fatal' = "reassemble"
             /\ subs' = SelectSeq(subs, IsFlagged)
        ELSE /\ pc' = "write"
             /\ UNCHANGED fatal
             /\ subs' = SelectSeq([j \in 1..Len(subs) |->
                                     ReassembledSub(subs, j, lines)],
                                  IsFlagged)
  /\ UNCHANGED <<input_subs, analyze_mode, db_words, db_file, db_saved, i,
                 current_chunk, current_chunk_size, translated_chunks, calls,
                 events, out_file, lowercase_subs_text, sub_words>>

\* The second loop with unwrap_or_default in place of unwrap: an entry that
\* finds no line keeps its text and the run goes on.
ReassembleLenient ==
  /\ pc = "reassemble"
  /\ LET lines == TranslatedLines(translated_chunks)
     IN subs' = [j \in 1..Len(subs) |->
                   IF FlaggedUpTo(subs, j) <= Len(lines)
                   THEN ReassembledSub(subs, j, lines)
                   ELSE subs[j]]
  /\ pc' = "write"
  /\ UNCHANGED <<fatal, input_subs, analyze_mode, db_words, db_file,
                 db_saved, i, current_chunk, current_chunk_size,
                 translated_chunks, calls, events, out_file,
                 lowercase_subs_text, sub_words>>

\* translate_subs, lines 266..275: the second loop.  next() on the lines
\* used up gives None and unwrap panics.
Reassemble ==
  /\ pc = "reassemble"
  /\ LET lines == TranslatedLines(translated_chunks)
     IN IF FlaggedUpTo(subs, Len(subs)) > Len(lines)
        THEN /\ pc' = "aborted"
             /\ fatal' = "reassemble"
             /\ subs' = [j \in 1..Len(subs) |->
                           IF FlaggedUpTo(subs, j) <= Len(lines)
                           THEN ReassembledSub(subs, j, lines)
                           ELSE subs[j]]
        ELSE /\ pc' = "write"
             /\ UNCHANGED fatal
             /\ subs' = [j \in 1..Len(subs) |->
                           ReassembledSub(subs, j, lines)]
  /\ UNCHANGED <<input_subs, analyze_mode, db_words, db_file, db_saved, i,
                 current_chunk, current_chunk_size, translated_chunks, calls,
                 events, out_file, lowercase_subs_text, sub_words>>

\* main, lines 342..350: the entries rendered and written to the output
\* file.
WriteOutput ==
  /\ pc = "write"
  /\ out_file' = [exists |-> TRUE, text |-> StringifyAll(subs)]
  /\ pc' = "done"
  /\ UNCHANGED <<fatal, input_subs, analyze_mode, subs, db_words, db_file,
                 db_saved, i, current_chunk, current_chunk_size,
                 translated_chunks, calls, events, lowercase_subs_text,
                 sub_words>>

\* main, lines 346..350: File::create or write fails and expect panics; a
\* created file holds nothing.
WriteOutputFails ==
  /\ pc = "write"
  /\ \E created \in BOOLEAN :
       out_file' = [exists |-> created \/ out_file.exists, text |-> <<>>]
  /\ pc' = "aborted"
  /\ fatal' = "write_output"
  /\ UNCHANGED <<input_subs, analyze_mode, subs, db_words, db_file, db_saved,
                 i, current_chunk, current_chunk_size, translated_chunks,
                 calls, events, lowercase_subs_text, sub_words>>

Next ==
  \/ ReadInputs
  \/ ReadInputsFails
  \/ WriteDatabase
  \/ WriteDatabaseFails
  \/ BatchEntry
  \/ BatchEntryFlush
  \/ TrailingFlush
  \/ Reassemble
  \/ WriteOutput
  \/ WriteOutputFails

Spec == Init /\ [][Next]_vars

(***************************************************************************)
(* parse_sub_words on its own                                              *)
(***************************************************************************)

\* The longest text given to parse_sub_words.
MaxWordText == 3

\* The characters of those texts: letters, the apostrophe, a space, a
\* digit.
WordTextChars == {"a", "b", "'", " ", "1"}

\* The lowercase texts of at most MaxWordText characters.
WordTextPool == {Str(cs) : cs \in SeqsUpTo(WordTextChars, MaxWordText)}

InitWords ==
  /\ pc = "words"
  /\ fatal = "none"
  /\ input_subs = <<>>
  /\ analyze_mode = TRUE
  /\ subs = <<>>
  /\ lowercase_subs_text \in WordTextPool
  /\ sub_words = <<>>
  /\ db_words = <<>>
  /\ db_file = <<>>
  /\ db_saved = FALSE
  /\ i = 1
  /\ current_chunk = <<>>
  /\ current_chunk_size = 0
  /\ translated_chunks = <<>>
  /\ calls = <<>>
  /\ events = <<>>
  /\ out_file = NoFile

\* main, line 296: parse_sub_words(&lowercase_subs_text).
ParseSubWords ==
  /\ pc = "words"
  /\ sub_words' = parse_sub_words(lowercase_subs_text)
  /\ pc' = "parsed"
  /\ UNCHANGED <<fatal, input_subs, analyze_mode, lowercase_subs_text, subs,
                 db_words, db_file, db_saved, i, current_chunk,
                 current_chunk_size, translated_chunks, calls, events,
                 out_file>>

NextWords == ParseSubWords

SpecWords == InitWords /\ [][NextWords]_vars

(***************************************************************************)
(* Derived state                                                           *)
(***************************************************************************)

\* The first loop of translate_subs has ended and every call was answered.
BatchingDone == pc \in {"reassemble", "write"}

\* What the first loop scans of entry j, and what it adds to a chunk for it.
ScannedText(j) == CleanText(input_subs[j].text)

EntryLine(j) == ChunkText(ScannedText(j))

\* The entries flagged for translation, in source order.
FlaggedSeq ==
  LET IsFlagged(j) == subs[j].need_translation
  IN Indices(Len(subs), IsFlagged)

\* The texts of all calls one after the other.
SentText == CatAll([k \in 1..Len(calls) |-> calls[k].text])

(***************************************************************************)
(* Properties                                                              *)
(***************************************************************************)

\* C1: every chunk handed to the translation service (the texts of its
\* entries, each with its "\r\n") is at most 4000 bytes long, but for the
\* trailing chunk and for a chunk that holds one entry longer than 4000
\* bytes.
C1_BatchCeiling ==
  \A k \in 1..Len(calls) :
     \/ StrLen(calls[k].text) <= MAX_CHUNK_SIZE
     \/ calls[k].trailing
     \/ /\ Len(Lines(calls[k].text)) = 1
        /\ StrLen(Lines(calls[k].text)[1]) > MAX_CHUNK_SIZE

\* C2: with exactly two flagged entries, texts of at most 4000 bytes
\* together make one call; texts of more make two calls, the first holding
\* the first entry alone.
C2_TwoEntries ==
  (BatchingDone /\ Len(FlaggedSeq) = 2) =>
    LET first == EntryLine(FlaggedSeq[1])
        second == EntryLine(FlaggedSeq[2])
    IN IF StrLen(first) + StrLen(second) <= MAX_CHUNK_SIZE
       THEN Len(calls) = 1
       ELSE Len(calls) = 2 /\ calls[1].text = Cat(first, CRLF)

\* C3: when every call is answered with one translated line per line of
\* its chunk, in order, the reassembled text of every flagged entry is its
\* highlighted text, a line break, and the translation of its own line.
C3_Reassembly ==
  (/\ pc = "write" \/ fatal = "reassemble"
   /\ calls # <<>>
   /\ \A k \in 1..Len(calls) : calls[k].outcome = "full") =>
    /\ pc = "write"
    /\ \A j \in 1..Len(subs) :
         subs[j].need_translation =>
           subs[j].text =
             CatAll(<<ColorReplace(ScannedText(j), db_words), CRLF,
                      ReplaceLit(TranslateLine(EntryLine(j)), <<" ", "*">>,
                                 CRLF)>>)

\* C4: after batching, an entry is flagged exactly when its text holds a
\* stretch of letters whose lowercase form is not classified Known, a word
\* the dictionary does not hold being classified New.
C4_FlagIffUnknownWord ==
  LET Classify(word) ==
        IF word \in DOMAIN db_words THEN db_words[word] ELSE "New"
      HasUnknownWord(j) ==
        \E m \in 1..Len(ColorMatches(ScannedText(j))) :
           Classify(ToAsciiLowercase(ColorMatches(ScannedText(j))[m]))
             # "Known"
  IN BatchingDone =>
       \A j \in 1..Len(subs) : subs[j].need_translation <=> HasUnknownWord(j)

\* The step of main that writes the dictionary file.
DatabaseWritten == ~db_saved /\ db_saved'

\* C5: the dictionary text main writes is one line "<category_char>:<word>"
\* per word of the merged dictionary, New lines first, then Unknown, then
\* Known, each group sorted by word.
C5_PersistedFormat ==
  [][DatabaseWritten =>
       LET DbLineWord(line) ==
             IF line[2].n = 1 THEN SubSeq(line, 3, Len(line))
             ELSE <<Run(line[2].c, line[2].n - 1)>>
                    \o SubSeq(line, 3, Len(line))
           GroupRank(c) ==
             CASE c = "?" -> 1
               [] c = "u" -> 2
               [] c = "k" -> 3
               [] OTHER -> 0
           PersistedFormat(file, words) ==
             LET lines == Lines(file)
                 word == [j \in 1..Len(lines) |-> DbLineWord(lines[j])]
             IN /\ file = CatAll([j \in 1..Len(lines) |->
                                    Cat(lines[j], CRLF)])
                /\ Len(lines) = Cardinality(DOMAIN words)
                /\ \A j \in 1..Len(lines) :
                     /\ Len(lines[j]) >= 2
                     /\ lines[j][1].n = 1
                     /\ lines[j][2].c = ":"
                     /\ word[j] \in DOMAIN words
                     /\ lines[j][1].c = KindChar(words[word[j]])
                /\ \A j \in 1..Len(lines) : \A k \in (j + 1)..Len(lines) :
                     \/ GroupRank(lines[j][1].c) < GroupRank(lines[k][1].c)
                     \/ /\ lines[j][1].c = lines[k][1].c
                        /\ StrLess(word[j], word[k])
       IN PersistedFormat(db_file', db_words')]_vars

\* A written dictionary with a group of two words or more and a second
\* group.
C5_Witness ==
  /\ db_saved
  /\ \E v, w \in DOMAIN db_words : v # w /\ db_words[v] = db_words[w]
  /\ \E v, w \in DOMAIN db_words : db_words[v] # db_words[w]

\* C6: a run that loads the dictionary text this run has written and
\* merges the same words again recovers the same mapping and writes the same
\* text, byte for byte.
C6_MergeIdempotent ==
  [][DatabaseWritten =>
       LET MergeIdempotent(file, words) ==
             /\ parse_db_words(file) = words
             /\ WordsDbText(
                  MergeWords(parse_db_words(file),
                             parse_sub_words(ToAsciiLowercase(SubsText))))
                  = file
       IN MergeIdempotent(db_file', db_words')]_vars

\* A written dictionary that holds words of the loaded dictionary and
\* words of the subtitle file, and differs from the text that was loaded.
C6_Witness ==
  /\ db_saved
  /\ \E w \in DOMAIN db_words :
       w \notin DOMAIN parse_sub_words(ToAsciiLowercase(SubsText))
  /\ \E w \in DOMAIN parse_sub_words(ToAsciiLowercase(SubsText)) :
       db_words[w] = "New"
  /\ db_file \notin DbPool

\* C7: no translation call is made before the dictionary file is written;
\* the file written holds the merged dictionary, the words of the subtitle
\* file among them, and no later step, a failing call included, changes it.
C7_DatabaseBeforeTranslation ==
  /\ [](calls # <<>> => db_saved)
  /\ [][DatabaseWritten =>
          LET HoldsMerged(file, words) ==
                LET saved == parse_db_words(file)
                IN /\ saved = words
                   /\ \A w \in DOMAIN parse_sub_words(
                                         ToAsciiLowercase(SubsText)) :
                        w \in DOMAIN saved
          IN HoldsMerged(db_file', db_words')]_vars
  /\ [][db_saved => UNCHANGED <<db_file, db_words>>]_vars

\* A run whose translation call has failed, with words of the subtitle
\* file that the loaded dictionary did not hold.
C7_Witness ==
  /\ calls # <<>>
  /\ ~calls[Len(calls)].ok
  /\ pc = "aborted"
  /\ \E w \in DOMAIN db_words : db_words[w] = "New"

\* C8: a failed translation call is the last call of the run, the run is
\* aborted and the output file is not created; and a run that ends in a
\* fatal condition has written nothing to the output file.
C8_FailureAborts ==
  /\ \A k \in 1..Len(calls) :
       ~calls[k].ok =>
         /\ k = Len(calls)
         /\ pc = "aborted"
         /\ fatal = "translate"
         /\ out_file = NoFile
  /\ pc = "aborted" => out_file.text = <<>>

\* A run aborted by the failure of its second call.
C8_Witness ==
  /\ Len(calls) >= 2
  /\ ~calls[Len(calls)].ok
  /\ pc = "aborted"

\* C9: an entry all of whose words are classified Known, in its parsed text
\* and in the text the batcher scans, is not flagged, adds nothing to any
\* chunk, and keeps its parsed text.
C9_KnownEntryUntouched ==
  LET Classify(word) ==
        IF word \in DOMAIN db_words THEN db_words[word] ELSE "New"
      WordsKnown(text) ==
        \A m \in 1..Len(ColorMatches(text)) :
           Classify(ToAsciiLowercase(ColorMatches(text)[m])) = "Known"
      AllWordsKnown(j) ==
        WordsKnown(input_subs[j].text) /\ WordsKnown(ScannedText(j))
  IN pc = "write" =>
       /\ SentText = CatAll([k \in 1..Len(FlaggedSeq) |->
                               Cat(EntryLine(FlaggedSeq[k]), CRLF)])
       /\ \A j \in 1..Len(subs) :
            AllWordsKnown(j) =>
              /\ ~subs[j].need_translation
              /\ subs[j].text = input_subs[j].text

\* The second loop of translate_subs has run, to its end or to a panic.
ReassemblyOver ==
  pc \in {"write", "done"} \/ fatal \in {"reassemble", "write_output"}

\* C10: when the concatenated translation results hold fewer lines than
\* there are flagged entries, the run aborts in the second loop, on the
\* entry that finds no line, and no output file is written.
C10_UnderDeliveryFatal ==
  (/\ ReassemblyOver
   /\ Len(TranslatedLines(translated_chunks)) < Len(FlaggedSeq)) =>
    /\ fatal = "reassemble"
    /\ out_file = NoFile

\* A run whose last call was answered a line short and that has aborted in
\* the second loop, the entries before the missing line reassembled.
C10_Witness ==
  /\ fatal = "reassemble"
  /\ calls # <<>>
  /\ calls[Len(calls)].outcome = "short"
  /\ 0 < Len(TranslatedLines(translated_chunks))
  /\ Len(TranslatedLines(translated_chunks)) < Len(FlaggedSeq)
  /\ subs[FlaggedSeq[1]].text # ColorReplace(ScannedText(FlaggedSeq[1]),
                                             db_words)

\* C11: in analysis mode the run makes no translation call and writes no
\* output file, and it ends with the dictionary file written, the observed
\* words merged into it.
C11_AnalyzeOnly ==
  analyze_mode =>
    /\ calls = <<>>
    /\ out_file = NoFile
    /\ pc \in {"merged", "done", "aborted"}
    /\ pc = "done" =>
         /\ db_saved
         /\ db_file = WordsDbText(db_words)
         /\ \A w \in DOMAIN parse_sub_words(ToAsciiLowercase(SubsText)) :
              w \in DOMAIN parse_db_words(db_file)

\* A run of analysis mode that has ended, over a subtitle file with entries
\* that would be flagged and words the loaded dictionary did not hold.
C11_Witness ==
  /\ analyze_mode
  /\ pc = "done"
  /\ Len(subs) >= 2
  /\ \E w \in DOMAIN db_words : db_words[w] = "New"
  /\ \E w \in DOMAIN db_words : db_words[w] = "Known"

\* C12: no empty chunk is sent: every translation call carries the line of
\* at least one flagged entry, and a run with no flagged entry makes no
\* call.
C12_NoEmptyBatch ==
  /\ \A k \in 1..Len(calls) :
       \E j \in 1..Len(FlaggedSeq) :
          \E m \in 1..Len(Lines(calls[k].text)) :
             Lines(calls[k].text)[m] = EntryLine(FlaggedSeq[j])
  /\ (BatchingDone /\ FlaggedSeq = <<>>) => calls = <<>>

\* C13: after batching, the chunks sent, in call order, are the lines of
\* the flagged entries in source order, each with its "\r\n": every chunk
\* is a stretch of whole lines of consecutive flagged entries, the next
\* chunk goes on where the one before ended, and all flagged entries are
\* sent.
C13_BatchesPreserveOrder ==
  BatchingDone =>
    LET count(k) == Len(Lines(calls[k].text))
        offset[k \in 0..Len(calls)] ==
          IF k = 0 THEN 0 ELSE offset[k - 1] + count(k)
    IN /\ offset[Len(calls)] = Len(FlaggedSeq)
       /\ \A k \in 1..Len(calls) :
            calls[k].text =
              CatAll([m \in 1..count(k) |->
                        Cat(EntryLine(FlaggedSeq[offset[k - 1] + m]), CRLF)])
       /\ SentText = CatAll([m \in 1..Len(FlaggedSeq) |->
                               Cat(EntryLine(FlaggedSeq[m]), CRLF)])

\* Three flagged entries sent in a chunk of two lines and a chunk of one.
C13_Witness ==
  /\ BatchingDone
  /\ Len(FlaggedSeq) = 3
  /\ \E k \in 1..Len(calls) : Len(Lines(calls[k].text)) = 2
  /\ \E k \in 1..Len(calls) : Len(Lines(calls[k].text)) = 1

\* C14: the line a flagged entry adds to a chunk is its text with every
\* line break inside it replaced by "*", and after reassembly the entry
\* still has the lines of its parsed text, the translated text beneath
\* them.
C14_SentinelReversible ==
  /\ BatchingDone =>
       \A j \in 1..Len(subs) :
          subs[j].need_translation =>
            EntryLine(j) = ReplaceNewline(CleanTags(input_subs[j].text), "*")
  /\ pc = "write" =>
       \A j \in 1..Len(subs) :
          subs[j].need_translation =>
            Len(Lines(subs[j].text)) > Len(Lines(input_subs[j].text))

\* C15: a translation call that is followed by anything in the run is
\* followed by a sleep, so that between two consecutive calls, after the
\* first has returned, the run sleeps.
C15_PauseBetweenCalls ==
  \A k \in 1..(Len(events) - 1) :
     events[k] = "translate" => events[k + 1] = "sleep"

\* A run of three calls, the trailing one among them.
C15_Witness ==
  /\ Len(calls) = 3
  /\ calls[3].trailing
  /\ Len(SelectSeq(events, LAMBDA e : e = "translate")) = 3

\* The step of main that merges the words of the subtitle file into the
\* loaded dictionary.
WordsMerged == pc = "start" /\ pc' = "merged"

\* C16: the merge keeps every word of the loaded dictionary with the kind
\* it had, adds every word of the subtitle file the dictionary did not
\* hold with the kind New, and holds no other word.
C16_MergeKeepsKinds ==
  [][WordsMerged =>
       LET loaded == parse_db_words(db_file)
           observed == parse_sub_words(ToAsciiLowercase(SubsText))
       IN /\ DOMAIN db_words' = DOMAIN loaded \cup DOMAIN observed
          /\ \A w \in DOMAIN loaded : db_words'[w] = loaded[w]
          /\ \A w \in DOMAIN observed \ DOMAIN loaded :
               db_words'[w] = "New"]_vars

\* A merge over a loaded dictionary that held a word of the subtitle file
\* as Known or Unknown and a word the file does not have, with another
\* word of the file added as New.
C16_Witness ==
  /\ pc = "merged"
  /\ \E v, x \in DOMAIN parse_sub_words(ToAsciiLowercase(SubsText)) :
       /\ v \in DOMAIN parse_db_words(db_file)
       /\ db_words[v] # "New"
       /\ x \notin DOMAIN parse_db_words(db_file)
       /\ db_words[x] = "New"
  /\ \E w \in DOMAIN db_words :
       w \notin DOMAIN parse_sub_words(ToAsciiLowercase(SubsText))

\* C17: parse_sub_words yields exactly the maximal stretches of characters
\* of [a-z'] of the text, a stretch that ends with the text among them; no
\* word is empty and none holds a character outside [a-z'].
C17_WordExtraction ==
  pc = "parsed" =>
    LET s == lowercase_subs_text
        Inside(m) == IsLowerWordChar(s[m].c)
        IsMaximal(j, e) ==
          /\ j <= e
          /\ \A m \in j..e : Inside(m)
          /\ j = 1 \/ ~Inside(j - 1)
          /\ e = Len(s) \/ ~Inside(e + 1)
        MaximalRuns ==
          {SubSeq(s, p[1], p[2]) :
             p \in {q \in (1..Len(s)) \X (1..Len(s)) : IsMaximal(q[1], q[2])}}
    IN /\ DOMAIN sub_words = MaximalRuns
       /\ \A w \in DOMAIN sub_words :
            /\ w # <<>>
            /\ \A m \in 1..Len(w) : IsLowerWordChar(w[m].c)

\* C18: translate_subs and the rendering add, remove and reorder no entry
\* and change no index, start_time or end_time: the entries stay those of
\* the parsed file but for text and need_translation, and the written
\* output is one block per parsed entry, in order, with its index and its
\* times.
C18_EntriesKept ==
  /\ (pc # "start" /\ fatal # "read_input") =>
       /\ Len(subs) = Len(input_subs)
       /\ \A j \in 1..Len(subs) :
            /\ subs[j].index = input_subs[j].index
            /\ subs[j].start_time = input_subs[j].start_time
            /\ subs[j].end_time = input_subs[j].end_time
  /\ (pc = "done" /\ out_file.exists) =>
       out_file.text =
         CatAll([j \in 1..Len(input_subs) |->
                   CatAll(<<DecStr(input_subs[j].index), LF,
                            FormatTime(input_subs[j].start_time),
                            Str(<<" ", "-", "-", ">", " ">>),
                            FormatTime(input_subs[j].end_time), LF,
                            subs[j].text, LF, LF>>)])

\* A written output over three entries, flagged ones and one that is not.
C18_Witness ==
  /\ pc = "done"
  /\ out_file.exists
  /\ Len(input_subs) = 3
  /\ \E j \in 1..Len(subs) : subs[j].need_translation
  /\ \E j \in 1..Len(subs) : ~subs[j].need_translation

\* C19: while translate_subs runs, the lowercase form of every stretch of
\* letters the first loop scans in an entry (its text with the tags taken
\* out and the line breaks made spaces) is a key of the merged dictionary.
C19_DictionaryCoverage ==
  pc \in {"batch", "reassemble", "write"} =>
    \A j \in 1..Len(input_subs) :
       \A m \in 1..Len(ColorMatches(ScannedText(j))) :
          ToAsciiLowercase(ColorMatches(ScannedText(j))[m])
            \in DOMAIN db_words

=============================================================================
